---- MODULE Spec2Model ----
(***************************************************************************)
(* Two-phase tableau simplex (class LP) and best-first branch and bound    *)
(* (class IP, sequential and OpenMP drivers) of pp-final-project.          *)
(*                                                                         *)
(* A double is modelled by an exact rational <<n, d>> (d > 0, lowest       *)
(* terms); +inf, -inf and NaN are <<1, 0>>, <<-1, 0>> and <<0, 0>>.        *)
(* Rounding error of the IEEE operations is not modelled; every comparison *)
(* against FOP::EPS is.                                                    *)
(***************************************************************************)
EXTENDS Integers, Sequences, FiniteSets, TLC

-----------------------------------------------------------------------------
(* Rational arithmetic standing for double *)

\* F(x) with x evaluated once, before F is entered (call by value, as in C++)
ByValue(F(_), x) == CHOOSE r \in {F(v) : v \in {x}} : TRUE

Abs(a) == IF a < 0 THEN -a ELSE a

RECURSIVE GCD(_, _)
GCD(a, b) == IF b = 0 THEN a ELSE GCD(b, a % b)

RNorm(n, d) ==
  IF n = 0 THEN <<0, 1>>
  ELSE LET g == GCD(Abs(n), Abs(d))
       IN  IF d < 0 THEN <<(-n) \div g, (-d) \div g>> ELSE <<n \div g, d \div g>>

R(k) == <<k, 1>>
RZero == <<0, 1>>
ROne == <<1, 1>>
FP64_INF == <<1, 0>>
FP64_NEG_INF == <<-1, 0>>
FP64_NAN == <<0, 0>>

IsFinite(a) == a[2] # 0
IsInf(a) == a[2] = 0 /\ a[1] # 0
IsNaN(a) == a[2] = 0 /\ a[1] = 0

RNeg(a) == <<-a[1], a[2]>>
RAdd(a, b) == IF a[1] = 0 THEN b ELSE IF b[1] = 0 THEN a
              ELSE RNorm(a[1] * b[2] + b[1] * a[2], a[2] * b[2])
RSub(a, b) == RAdd(a, RNeg(b))
RMul(a, b) == IF a[1] = 0 \/ b[1] = 0 THEN RZero
              ELSE RNorm(a[1] * b[1], a[2] * b[2])
RDiv(a, b) == IF a[1] = 0 THEN RZero ELSE RNorm(a[1] * b[2], a[2] * b[1])

\* a < b on doubles: false when either side is NaN
RLt(a, b) ==
  IF IsNaN(a) \/ IsNaN(b) THEN FALSE
  ELSE IF IsInf(a) THEN a[1] < 0 /\ b # a
  ELSE IF IsInf(b) THEN b[1] > 0
  ELSE a[1] * b[2] < b[1] * a[2]
RLe(a, b) == a = b \/ RLt(a, b)

\* x * (isMin ? 1 : -1)
RSign(a, isMin) == IF isMin THEN a ELSE RNeg(a)

RFloor(a) == a[1] \div a[2]
\* round(): to nearest, halves away from zero
RRound(a) == IF a[1] >= 0 THEN (2 * a[1] + a[2]) \div (2 * a[2])
             ELSE -((2 * (-a[1]) + a[2]) \div (2 * a[2]))

-----------------------------------------------------------------------------
(* class FOP: EPS = 1e-4 = 1 / EPS_DEN *)

EPS_DEN == 10000

isInt(x) == LET e == RSub(x, R(RRound(x))) IN Abs(e[1]) * EPS_DEN <= e[2]
isZero(x) == Abs(x[1]) * EPS_DEN <= x[2]
isPos(x) == x[1] * EPS_DEN >= x[2]

-----------------------------------------------------------------------------
(* class Constraint: terms is the dense coefficient vector (a missing key of *)
(* the unordered_map is a 0), relation one of "LEQ", "EQ", "GEQ"             *)

Con(terms, relation, rightConst) ==
  [terms |-> terms, relation |-> relation, rightConst |-> rightConst]

stdOfNegativeRightConst(con) ==
  IF ~RLt(con.rightConst, RZero) THEN con
  ELSE [terms |-> [k \in DOMAIN con.terms |-> RNeg(con.terms[k])],
        relation |-> IF con.relation = "LEQ" THEN "GEQ"
                     ELSE IF con.relation = "GEQ" THEN "LEQ" ELSE con.relation,
        rightConst |-> RNeg(con.rightConst)]

haveSlackVar(con) == con.relation # "EQ"
getSlackVarCoef(con) == IF con.relation = "LEQ" THEN ROne
                        ELSE IF con.relation = "GEQ" THEN RNeg(ROne) ELSE RZero
haveArtificialVar(con) == con.relation # "LEQ"

-----------------------------------------------------------------------------
(* class LP::Tableau: arr[i][j] for rows 0..rows-1 and columns 0..cols-1 *)

scaleRow(arr, i, s) ==
  [arr EXCEPT ![i] = [k \in DOMAIN arr[i] |-> RDiv(arr[i][k], s)]]

\* row j += row i * s
addRowToRow(arr, i, j, s) ==
  [arr EXCEPT ![j] = [k \in DOMAIN arr[j] |-> RAdd(arr[j][k], RMul(arr[i][k], s))]]

\* an elimination that clears column j and leaves row i undivided
eliminationNoScale(arr, i, j) ==
  LET aij == arr[i][j]
      rowI == arr[i]
  IN  [k \in DOMAIN arr |->
         IF k = i THEN rowI
         ELSE LET s == RNeg(RDiv(arr[k][j], aij))
              IN  [c \in DOMAIN rowI |->
                     IF c = j THEN RZero ELSE RAdd(arr[k][c], RMul(rowI[c], s))]]

\* scalar path of Tableau::elimination
elimination(arr, i, j) ==
  LET aij == arr[i][j]
      rowI == arr[i]
  IN  [k \in DOMAIN arr |->
         IF k = i THEN [c \in DOMAIN rowI |-> RDiv(rowI[c], aij)]
         ELSE LET s == RNeg(RDiv(arr[k][j], aij))
              IN  [c \in DOMAIN rowI |->
                     IF c = j THEN RZero ELSE RAdd(arr[k][c], RMul(rowI[c], s))]]

\* the flat buffer Tableau::arr of a tableau: entry (i, j) at index cols * i + j
flatten(arr, rows, cols) ==
  [n \in 0..(rows * cols - 1) |-> arr[n \div cols][n % cols]]

unflatten(buf, rows, cols) ==
  [i \in 0..(rows - 1) |-> [j \in 0..(cols - 1) |-> buf[cols * i + j]]]

simdWidth == 4

\* a vector loop that runs while c < cols, whatever is left of the row
simdStartsToEnd(cols) == {c \in 0..(cols - 1) : c % simdWidth = 0}

\* the values of c in the vector loop: for (c = 0; c + (simdWidth-1) < cols; c += simdWidth)
simdStarts(cols) == {c \in 0..(cols - 1) : c % simdWidth = 0 /\ c + (simdWidth - 1) < cols}

\* the offsets in a row that the vector loop and the scalar loop after it touch
rowOffsets(cols) ==
  {c + l : c \in simdStarts(cols), l \in 0..(simdWidth - 1)}
    \cup {c \in 0..(cols - 1) : \A d \in simdStarts(cols) : c >= d + simdWidth}

\* the buffer indices parallelArrayElimination reads or writes
bufferAccesses(cols, buf, i, j) ==
  LET rows == (Cardinality(DOMAIN buf)) \div cols
  IN  {cols * k + c : k \in 0..(rows - 1), c \in rowOffsets(cols)}
        \cup {cols * k + j : k \in 0..(rows - 1)}
        \cup {cols * i + c : c \in 0..(cols - 1)}

\* one turn of the loop over k in parallelArrayElimination: row k -= row i * ratio
\* at the offsets touched, then ptrRowK[j] = 0
eliminateRow(cols, buf, i, j, k) ==
  ByValue(LAMBDA ratio :
    ByValue(LAMBDA hits :
      [n \in DOMAIN buf |->
         IF n = cols * k + j THEN RZero
         ELSE IF n \in hits THEN RSub(buf[n], RMul(buf[cols * i + (n - cols * k)], ratio))
         ELSE buf[n]],
      {n \in DOMAIN buf : n - cols * k \in rowOffsets(cols)
                          /\ cols * i + (n - cols * k) \in DOMAIN buf}),
    RDiv(buf[cols * k + j], buf[cols * i + j]))

RECURSIVE eliminateRowsFrom(_, _, _, _, _)
eliminateRowsFrom(cols, buf, i, j, k) ==
  IF k >= (Cardinality(DOMAIN buf)) \div cols THEN buf
  ELSE IF k = i THEN eliminateRowsFrom(cols, buf, i, j, k + 1)
  ELSE ByValue(LAMBDA b : eliminateRowsFrom(cols, b, i, j, k + 1),
               eliminateRow(cols, buf, i, j, k))

\* parallelArrayElimination(cols, arr, i, j), arr being the flat buffer
parallelArrayElimination(cols, buf, i, j) ==
  ByValue(LAMBDA b :
            [n \in DOMAIN b |->
               IF n \in {cols * i + k : k \in 0..(cols - 1)}
                 THEN RDiv(b[n], b[cols * i + j]) ELSE b[n]],
          eliminateRowsFrom(cols, buf, i, j, 0))

\* Tableau::elimination with enableMatrixEliminationParallel set
eliminationAccelerated(arr, rows, cols, i, j) ==
  ByValue(LAMBDA out : unflatten(out, rows, cols),
          ByValue(LAMBDA buf : parallelArrayElimination(cols, buf, i, j),
                  flatten(arr, rows, cols)))

-----------------------------------------------------------------------------
(* class LP.  An LP object is the record lp: the tableau (arr, rows, cols,  *)
(* baseVarIndexs), the inputs, the outputs, and stage, the position of the  *)
(* constructor: "phase1" and "phase2" are the two calls of                  *)
(* runMinSimplexMethod, "done" the end of the constructor.                  *)

\* LP::LP, the loop that turns variable ranges into constraints
UnitTerms(n, i) == [k \in 1..n |-> IF k = i THEN ROne ELSE RZero]

RECURSIVE VarRangeMultiCon(_, _)
VarRangeMultiCon(varRange, i) ==
  IF i > Len(varRange) THEN <<>>
  ELSE LET varMin == varRange[i][1]
           varMax == varRange[i][2]
           n == Len(varRange)
           lo == IF RLt(RZero, varMin) THEN <<Con(UnitTerms(n, i), "GEQ", varMin)>> ELSE <<>>
           hi == IF ~IsInf(varMax) THEN <<Con(UnitTerms(n, i), "LEQ", varMax)>> ELSE <<>>
       IN  lo \o hi \o VarRangeMultiCon(varRange, i + 1)

\* number of slack variables among the first r constraints
RECURSIVE SlackCount(_, _)
SlackCount(cons, r) ==
  IF r = 0 THEN 0
  ELSE SlackCount(cons, r - 1) + (IF haveSlackVar(cons[r]) THEN 1 ELSE 0)

\* LP::initTableau and LP::insertConToTableau: rows 1.. hold the constraints of
\* multiCon, then those of varRangeMultiCon; general variable j is column j-1
initTableau(cons, varCount) ==
  LET rows == 1 + Len(cons)
      cols == varCount + SlackCount(cons, Len(cons)) + 1
  IN  [i \in 0..(rows - 1) |-> [j \in 0..(cols - 1) |-> RZero]]

insertConToTableau(cons, varCount) ==
  LET rows == 1 + Len(cons)
      cols == varCount + SlackCount(cons, Len(cons)) + 1
      slackVarColIndex(r) == varCount - 1 + SlackCount(cons, r)
  IN  [arr |-> [i \in 0..(rows - 1) |->
                  IF i = 0 THEN initTableau(cons, varCount)[0]
                  ELSE [j \in 0..(cols - 1) |->
                          IF j = cols - 1 THEN cons[i].rightConst
                          ELSE IF haveSlackVar(cons[i]) /\ j = slackVarColIndex(i)
                                 THEN getSlackVarCoef(cons[i])
                          ELSE IF j < varCount THEN cons[i].terms[j + 1]
                          ELSE RZero]],
       baseVarIndexs |-> [i \in 0..(rows - 1) |->
                  IF i = 0 THEN 0
                  ELSE IF haveArtificialVar(cons[i]) THEN -1 ELSE slackVarColIndex(i)],
       rows |-> rows,
       cols |-> cols]

\* LP::findNewBaseVarIndex: the first column whose head entry is positive
RECURSIVE findNewBaseVarIndexFrom(_, _)
findNewBaseVarIndexFrom(lp, j) ==
  IF j > lp.cols - 2 THEN -1
  ELSE IF isPos(lp.arr[0][j]) THEN j
  ELSE findNewBaseVarIndexFrom(lp, j + 1)

findNewBaseVarIndex(lp) == findNewBaseVarIndexFrom(lp, 0)

\* LP::findMinPosRatioRowIndex: the first row of least ratio (1e300 stands
\* above every ratio of the model: minIdx = -1 means no ratio seen yet)
RECURSIVE findMinPosRatioRowIndexFrom(_, _, _, _, _)
findMinPosRatioRowIndexFrom(lp, baseVarIndex, i, minPosRatio, minIdx) ==
  IF i >= lp.rows THEN minIdx
  ELSE IF isPos(lp.arr[i][baseVarIndex])
         THEN LET ratio == RDiv(lp.arr[i][lp.cols - 1], lp.arr[i][baseVarIndex])
              IN  IF minIdx = -1 \/ RLt(ratio, minPosRatio)
                    THEN findMinPosRatioRowIndexFrom(lp, baseVarIndex, i + 1, ratio, i)
                    ELSE findMinPosRatioRowIndexFrom(lp, baseVarIndex, i + 1, minPosRatio, minIdx)
  ELSE findMinPosRatioRowIndexFrom(lp, baseVarIndex, i + 1, minPosRatio, minIdx)

\* a ratio test that takes the first row with a positive entry, whatever its ratio
findMinPosRatioRowIndexFirst(lp, baseVarIndex) ==
  LET S == {i \in 1..(lp.rows - 1) : isPos(lp.arr[i][baseVarIndex])}
  IN  IF S = {} THEN -1 ELSE CHOOSE i \in S : \A k \in S : i <= k

findMinPosRatioRowIndex(lp, baseVarIndex) ==
  findMinPosRatioRowIndexFrom(lp, baseVarIndex, 1, RZero, -1)

isTableauHaveArtificialVar(lp) ==
  \E i \in 1..(lp.rows - 1) : lp.baseVarIndexs[i] = -1

\* uint32_t baseVarIndex = baseVarIndexs[i]; baseVarIndex <= varCount - 1
\* (the cast sends -1 to 4294967295, above every varCount - 1)
isGeneralVar(lp, i) ==
  lp.baseVarIndexs[i] >= 0 /\ lp.baseVarIndexs[i] <= lp.varCount - 1

\* the row whose basis is general variable v (0-based), or 0 when none; when
\* two rows name v the loop's last write stays
LastRowOf(lp, v) ==
  LET S == {i \in 1..(lp.rows - 1) : isGeneralVar(lp, i) /\ lp.baseVarIndexs[i] = v}
  IN  IF S = {} THEN 0 ELSE CHOOSE i \in S : \A k \in S : k <= i

\* a handleUnbound whose direction is the entering column as it stands, without
\* the factor (isMin ? 1 : -1)
handleUnboundNoFlip(lp, newBaseVarIndex) ==
  [lp EXCEPT
     !.solutionType = "UNBOUNDED",
     !.solution = [v \in 1..lp.varCount |->
        LET i == LastRowOf(lp, v - 1)
        IN  IF i = 0 THEN RZero ELSE lp.arr[i][lp.cols - 1]],
     !.unboundedDirection = [v \in 1..lp.varCount |->
        LET i == LastRowOf(lp, v - 1)
        IN  IF i = 0 THEN RZero ELSE lp.arr[i][newBaseVarIndex]],
     !.extremum = IF lp.isMin THEN FP64_NEG_INF ELSE FP64_INF]

\* LP::handleUnbound
handleUnbound(lp, newBaseVarIndex) ==
  [lp EXCEPT
     !.solutionType = "UNBOUNDED",
     !.solution = [v \in 1..lp.varCount |->
        LET i == LastRowOf(lp, v - 1)
        IN  IF i = 0 THEN RZero ELSE lp.arr[i][lp.cols - 1]],
     !.unboundedDirection = [v \in 1..lp.varCount |->
        LET i == LastRowOf(lp, v - 1)
        IN  IF i = 0 THEN RZero ELSE RSign(lp.arr[i][newBaseVarIndex], lp.isMin)],
     !.extremum = IF lp.isMin THEN FP64_NEG_INF ELSE FP64_INF]

\* a handleBound whose extremum is the tableau entry as it stands, without the
\* factor (isMin ? 1 : -1)
handleBoundUnsigned(lp) ==
  [lp EXCEPT
     !.solutionType = "BOUNDED",
     !.solution = [v \in 1..lp.varCount |->
        LET i == LastRowOf(lp, v - 1)
        IN  IF i = 0 THEN RZero ELSE lp.arr[i][lp.cols - 1]],
     !.extremum = lp.arr[0][lp.cols - 1]]

\* LP::handleBound
handleBound(lp) ==
  [lp EXCEPT
     !.solutionType = "BOUNDED",
     !.solution = [v \in 1..lp.varCount |->
        LET i == LastRowOf(lp, v - 1)
        IN  IF i = 0 THEN RZero ELSE lp.arr[i][lp.cols - 1]],
     !.extremum = RSign(lp.arr[0][lp.cols - 1], lp.isMin)]

\* LP::insertObjFuncToTableau
insertObjFuncToTableau(lp) ==
  [lp EXCEPT !.arr[0] = [j \in 0..(lp.cols - 1) |->
     IF j < lp.varCount THEN RSign(lp.objFunc[j + 1], ~lp.isMin) ELSE lp.arr[0][j]]]

\* LP::handleNonZeroHead, rows i, i+1, ... in turn
RECURSIVE handleNonZeroHeadFrom(_, _)
handleNonZeroHeadFrom(lp, i) ==
  IF i >= lp.rows THEN lp
  ELSE LET baseVarIndex == lp.baseVarIndexs[i]
           head == lp.arr[0][baseVarIndex]
       IN  IF ~isZero(head)
             THEN ByValue(LAMBDA next : handleNonZeroHeadFrom(next, i + 1),
                          [lp EXCEPT !.arr = addRowToRow(lp.arr, i, 0, RNeg(head))])
             ELSE handleNonZeroHeadFrom(lp, i + 1)

handleNonZeroHead(lp) == handleNonZeroHeadFrom(lp, 1)

\* the else branch of LP::LP up to the second runMinSimplexMethod
enterPhase2(lp) ==
  [ByValue(handleNonZeroHead, insertObjFuncToTableau(lp)) EXCEPT !.stage = "phase2"]

\* LP::checkInfeasible up to its runMinSimplexMethod: every artificial row is
\* added to row 0
RECURSIVE addArtificialRows(_, _)
addArtificialRows(lp, i) ==
  IF i >= lp.rows THEN lp
  ELSE IF lp.baseVarIndexs[i] = -1
         THEN ByValue(LAMBDA next : addArtificialRows(next, i + 1),
                      [lp EXCEPT !.arr = addRowToRow(lp.arr, i, 0, ROne)])
  ELSE addArtificialRows(lp, i + 1)

\* LP::LP up to the first pivot decision
LPNew(isMin, objFunc, multiCon, varRange) ==
  LET varCount == Len(varRange)
      cons == multiCon \o VarRangeMultiCon(varRange, 1)
      t == insertConToTableau(cons, varCount)
      lp0 == [arr |-> t.arr, baseVarIndexs |-> t.baseVarIndexs,
              rows |-> t.rows, cols |-> t.cols,
              varCount |-> varCount, isMin |-> isMin, objFunc |-> objFunc,
              stage |-> "phase1", pivots |-> 0,
              solutionType |-> "UNSET", solution |-> <<>>,
              unboundedDirection |-> <<>>, extremum |-> FP64_NAN]
      start(l) == IF isTableauHaveArtificialVar(l) THEN addArtificialRows(l, 1)
                  ELSE enterPhase2(l)
  IN  ByValue(start, lp0)

\* one turn of the loop of LP::runMinSimplexMethod, and what follows the loop
\* in checkInfeasible (stage "phase1") or in LP::LP (stage "phase2")
SimplexStep(lp) ==
  LET newBaseVarIndex == findNewBaseVarIndex(lp)
      rowIndex == findMinPosRatioRowIndex(lp, newBaseVarIndex)
  IN  IF newBaseVarIndex = -1
        THEN IF lp.stage = "phase1"
               THEN IF isTableauHaveArtificialVar(lp)
                      THEN [lp EXCEPT !.stage = "done", !.solutionType = "INFEASIBLE",
                                      !.extremum = FP64_NAN]
                      ELSE enterPhase2(
                             [lp EXCEPT !.arr[0] = [j \in 0..(lp.cols - 1) |-> RZero]])
               ELSE IF isTableauHaveArtificialVar(lp)
                      THEN [lp EXCEPT !.stage = "done"]
                      ELSE [handleBound(lp) EXCEPT !.stage = "done"]
      ELSE IF rowIndex = -1
        THEN IF lp.stage = "phase1"
               THEN [handleUnbound(lp, newBaseVarIndex) EXCEPT
                       !.stage = "done", !.solutionType = "INFEASIBLE",
                       !.extremum = FP64_NAN]
               ELSE [handleUnbound(lp, newBaseVarIndex) EXCEPT !.stage = "done"]
      ELSE [lp EXCEPT !.arr = elimination(lp.arr, rowIndex, newBaseVarIndex),
                      !.baseVarIndexs[rowIndex] = newBaseVarIndex,
                      !.pivots = lp.pivots + 1]

\* pivots allowed to one LP solve of the model
MaxPivots == 12

RECURSIVE LPRun(_)
LPRun(lp) ==
  IF lp.stage = "done" \/ lp.pivots >= MaxPivots THEN lp
  ELSE ByValue(LPRun, SimplexStep(lp))

\* LP::LP, the whole constructor
LPSolve(isMin, objFunc, multiCon, varRange) ==
  ByValue(LPRun, LPNew(isMin, objFunc, multiCon, varRange))

-----------------------------------------------------------------------------
(* class IP::Node *)

\* Node::getSplitVarIndex (0-based, -1 when every value is integral)
RECURSIVE getSplitVarIndexFrom(_, _)
getSplitVarIndexFrom(solution, i) ==
  IF i > Len(solution) THEN -1
  ELSE IF ~isInt(solution[i]) THEN i - 1
  ELSE getSplitVarIndexFrom(solution, i + 1)

\* a split test that takes every value for integral
getSplitVarIndexNone(lp) == -1

getSplitVarIndex(lp) == getSplitVarIndexFrom(lp.solution, 1)

\* the statements of Node::getSplitValue after its first return: the midpoint of
\* a finite range
getSplitValueMidpoint(varRange, varSolution) ==
  IF varRange[2] = FP64_INF THEN varSolution
  ELSE RDiv(RAdd(varRange[1], varRange[2]), R(2))

\* Node::getSplitValue returns varSolution at its first statement
getSplitValue(varRange, varSolution) == varSolution

\* Node::Node after its first statement, lp being the solved LP.  A node whose
\* LP ran out of the model's pivots has type "NONE"
NodeOf(lp, varRange) ==
  LET splitVarIndex == getSplitVarIndex(lp)
      v == splitVarIndex + 1
      splitValue == R(RFloor(getSplitValue(varRange[v], lp.solution[v])))
      base == [solution |-> lp.solution, lowerBound |-> lp.extremum,
               type |-> "NONE", varRangeLeft |-> <<>>, varRangeRight |-> <<>>]
  IN  IF lp.stage # "done" THEN base
      ELSE IF lp.solutionType = "INFEASIBLE" THEN [base EXCEPT !.type = "INFEASIBLE"]
      ELSE IF lp.solutionType = "UNBOUNDED" THEN [base EXCEPT !.type = "UNBOUNDED"]
      ELSE IF lp.solutionType = "BOUNDED"
        THEN IF splitVarIndex = -1 THEN [base EXCEPT !.type = "IP_FEASIBLE"]
             ELSE [base EXCEPT
                     !.type = "LP_FEASIBLE",
                     !.varRangeLeft = [varRange EXCEPT ![v][2] = splitValue],
                     !.varRangeRight = [varRange EXCEPT ![v][1] = RAdd(splitValue, ROne)]]
      ELSE base

\* Node::Node
Node(objFunc, multiCon, varRange) ==
  ByValue(LAMBDA lp : NodeOf(lp, varRange), LPSolve(TRUE, objFunc, multiCon, varRange))

\* Node::Node returns: its LP ends within the pivots of the model
nodeReturns(objFunc, multiCon, varRange) ==
  Node(objFunc, multiCon, varRange).type # "NONE"

\* Node::cmp
cmp(a, b) == RLt(b.lowerBound, a.lowerBound)

-----------------------------------------------------------------------------
(* IP::nodeQueue, a std::priority_queue<Node, vector<Node>, Node::cmp>: the  *)
(* vector is the sequence q (q[k + 1] is element k), kept a heap by          *)
(* std::push_heap and std::pop_heap as g++'s library (the Makefile's         *)
(* compiler) implements them                                                 *)

\* std::__push_heap: sift value up from holeIndex
RECURSIVE pushHeap(_, _, _)
pushHeap(q, holeIndex, value) ==
  LET parent == (holeIndex - 1) \div 2
  IN  IF holeIndex > 0 /\ cmp(q[parent + 1], value)
        THEN pushHeap([q EXCEPT ![holeIndex + 1] = q[parent + 1]], parent, value)
        ELSE [q EXCEPT ![holeIndex + 1] = value]

\* priority_queue::push
queuePush(q, node) == pushHeap(Append(q, node), Len(q), node)

\* std::__adjust_heap, the walk of the hole down to a leaf
RECURSIVE adjustDown(_, _, _)
adjustDown(q, len, secondChild) ==
  IF secondChild < (len - 1) \div 2
    THEN LET r == 2 * (secondChild + 1)
             c == IF cmp(q[r + 1], q[r]) THEN r - 1 ELSE r
         IN  adjustDown([q EXCEPT ![secondChild + 1] = q[c + 1]], len, c)
  ELSE IF len % 2 = 0 /\ secondChild = (len - 2) \div 2
    THEN LET r == 2 * (secondChild + 1)
         IN  [q |-> [q EXCEPT ![secondChild + 1] = q[r]], hole |-> r - 1]
  ELSE [q |-> q, hole |-> secondChild]

\* priority_queue::top
queueTop(q) == q[1]

\* priority_queue::pop: std::pop_heap, then pop_back
queuePop(q) ==
  IF Len(q) <= 1 THEN <<>>
  ELSE LET len == Len(q) - 1
           value == q[Len(q)]
           d == adjustDown(SubSeq(q, 1, len), len, 0)
       IN  pushHeap(d.q, d.hole, value)

-----------------------------------------------------------------------------
(* class IP.  An IP object is the record ip.  A problem as the user states  *)
(* it is prob = [mode, terms, cons]: the arguments of IP::IP and, in order, *)
(* those of the addConstraint calls; variable j of the bimap is position    *)
(* j + 1 of a terms vector.                                                 *)

\* IP::IP
IPNew(mode, terms) ==
  [isMin |-> (mode = "min"), objFunc |-> terms, multiCon |-> <<>>,
   nodeQueue |-> <<>>, objValueUpperBound |-> FP64_INF, nodeSolvedCount |-> 0,
   solutionType |-> "INFEASIBLE", solution |-> <<>>, extremum |-> FP64_NAN]

\* IP::addConstraint
addConstraint(ip, terms, mode, rightConst) ==
  LET con == IF mode = "<=" THEN Con(terms, "LEQ", rightConst)
             ELSE IF mode = ">=" THEN Con(terms, "GEQ", rightConst)
             ELSE Con(terms, "EQ", rightConst)
  IN  [ip EXCEPT !.multiCon = Append(ip.multiCon, stdOfNegativeRightConst(con))]

RECURSIVE addConstraints(_, _, _)
addConstraints(ip, cons, k) ==
  IF k > Len(cons) THEN ip
  ELSE ByValue(LAMBDA i : addConstraints(i, cons, k + 1),
               addConstraint(ip, cons[k].terms, cons[k].mode, cons[k].rightConst))

\* the IP object a caller holds before solve() or solveParallel()
IPBuild(prob) ==
  ByValue(LAMBDA i : addConstraints(i, prob.cons, 1), IPNew(prob.mode, prob.terms))

\* a checkNode that takes an IP_FEASIBLE node without comparing it to the bound
checkNodeNoCompare(ip, node) ==
  LET counted == [ip EXCEPT !.nodeSolvedCount = ip.nodeSolvedCount + 1]
  IN  IF node.type = "IP_FEASIBLE"
        THEN [counted EXCEPT !.solutionType = "BOUNDED",
                             !.solution = node.solution,
                             !.objValueUpperBound = node.lowerBound]
      ELSE IF node.type = "LP_FEASIBLE" /\ RLt(node.lowerBound, ip.objValueUpperBound)
        THEN [counted EXCEPT !.nodeQueue = queuePush(ip.nodeQueue, node)]
      ELSE IF node.type = "UNBOUNDED"
        THEN [counted EXCEPT !.solutionType = "UNBOUNDED"]
      ELSE counted

\* IP::checkNode
checkNode(ip, node) ==
  LET counted == [ip EXCEPT !.nodeSolvedCount = ip.nodeSolvedCount + 1]
  IN  IF node.type = "IP_FEASIBLE" /\ RLt(node.lowerBound, ip.objValueUpperBound)
        THEN [counted EXCEPT !.solutionType = "BOUNDED",
                             !.solution = node.solution,
                             !.objValueUpperBound = node.lowerBound]
      ELSE IF node.type = "LP_FEASIBLE" /\ RLt(node.lowerBound, ip.objValueUpperBound)
        THEN [counted EXCEPT !.nodeQueue = queuePush(ip.nodeQueue, node)]
      ELSE IF node.type = "UNBOUNDED"
        THEN [counted EXCEPT !.solutionType = "UNBOUNDED"]
      ELSE counted

\* IP::init
init(ip) ==
  LET neg == IF ~ip.isMin
               THEN [ip EXCEPT !.objFunc = [k \in DOMAIN ip.objFunc |-> RNeg(ip.objFunc[k])]]
               ELSE ip
      varRange == [k \in 1..Len(ip.objFunc) |-> <<RZero, FP64_INF>>]
      root(i) == ByValue(LAMBDA rootNode : checkNode(i, rootNode),
                         Node(i.objFunc, i.multiCon, varRange))
  IN  ByValue(root, neg)

\* the condition of the while loop of IP::solve
solveLoopCond(ip) == Len(ip.nodeQueue) > 0 /\ ip.solutionType # "UNBOUNDED"

\* the body of the while loop of IP::solve
solveLoopBody(ip) ==
  LET node == queueTop(ip.nodeQueue)
      popped == [ip EXCEPT !.nodeQueue = queuePop(ip.nodeQueue)]
      checkBoth(leftChildNode, rightChildNode) ==
        ByValue(LAMBDA i : checkNode(i, rightChildNode), checkNode(popped, leftChildNode))
  IN  ByValue(LAMBDA leftChildNode :
                ByValue(LAMBDA rightChildNode : checkBoth(leftChildNode, rightChildNode),
                        Node(ip.objFunc, ip.multiCon, node.varRangeRight)),
              Node(ip.objFunc, ip.multiCon, node.varRangeLeft))

\* an extremum left in min form
setExtremumUnsigned(ip) == [ip EXCEPT !.extremum = ip.objValueUpperBound]

\* the last statement of IP::solve and of IP::solveParallel
setExtremum(ip) == [ip EXCEPT !.extremum = RSign(ip.objValueUpperBound, ip.isMin)]

\* LP solves (checkNode calls) allowed to one IP solve of the model
MaxNodes == 11

RECURSIVE solveLoop(_)
solveLoop(ip) ==
  IF ~solveLoopCond(ip) THEN setExtremum(ip)
  ELSE IF ip.nodeSolvedCount >= MaxNodes THEN ip
  ELSE ByValue(solveLoop, solveLoopBody(ip))

\* IP::solve, the whole call
solve(ip) == ByValue(solveLoop, init(ip))

-----------------------------------------------------------------------------
(* The inputs of the model: problems in two variables x0, x1 *)

\* constraints a problem may hold
MaxCons == 2
\* threads of the OpenMP team
NumWorkers == 2

Vec(t) == [k \in DOMAIN t |-> R(t[k])]
UserCon(t, mode, b) == [terms |-> Vec(t), mode |-> mode, rightConst |-> R(b)]

ObjPool == {Vec(<<3, 1>>), Vec(<<1, 1>>), Vec(<<1, -1>>), Vec(<<0, 1>>)}

ConPool ==
  { UserCon(<<4, 2>>, "<=", 11), UserCon(<<1, 1>>, ">=", 3),
    UserCon(<<1, 1>>, "=", 2),   UserCon(<<1, -1>>, "<=", 1),
    UserCon(<<2, -2>>, "=", 1),  UserCon(<<-1, 0>>, ">=", -2),
    UserCon(<<0, 1>>, ">=", 2),  UserCon(<<2, 3>>, "<=", 6) }

RECURSIVE SeqsOfLen(_, _)
SeqsOfLen(S, n) ==
  IF n = 0 THEN {<<>>}
  ELSE {Append(q, x) : q \in SeqsOfLen(S, n - 1), x \in S}

SeqsUpTo(S, n) == UNION {SeqsOfLen(S, k) : k \in 0..n}

\* the IP examples of the repository's tests and of the design document, and
\* problems whose root splits into two integral children, the right one better
\* than the left one (max x1 under x1 <= 2 x0, x0 + x1 <= 5) and worse (max x1
\* under x1 <= x0 + 1, 3 x0 + x1 <= 7), and into a fractional left child that
\* the integral right child makes stale (max x1 under 2 x1 <= 5 x0, x0 + x1 <= 5);
\* and a problem whose scale puts a reduced cost under EPS: min -0.0099 x1 under
\* 2 x0 + x1 >= 1, 100 x1 >= 0, whose root LP::LP ends BOUNDED at (1/2, 0) with
\* the reduced cost 0.000099 left in row 0, whose left child is UNBOUNDED and
\* whose right child is integral; and a problem with two live nodes in the queue
\* at once, the expansion of the first of which brings the incumbent down to
\* the lower bound of the second (max 3 x0 + 2 x1 under 2 x0 - 2 x1 <= 3,
\* 3 x0 + 2 x1 <= 7)
Scenarios ==
  { [mode |-> "max", terms |-> Vec(<<0, 1>>),
     cons |-> << UserCon(<<-5, 2>>, "<=", 0), UserCon(<<1, 1>>, "<=", 5) >>],
    [mode |-> "max", terms |-> Vec(<<0, 1>>),
     cons |-> << UserCon(<<-2, 1>>, "<=", 0), UserCon(<<1, 1>>, "<=", 5) >>],
    [mode |-> "max", terms |-> Vec(<<0, 1>>),
     cons |-> << UserCon(<<-1, 1>>, "<=", 1), UserCon(<<3, 1>>, "<=", 7) >>],
    [mode |-> "max", terms |-> Vec(<<1, 1>>),
     cons |-> << UserCon(<<4, 3>>, "<=", 17), UserCon(<<2, -5>>, ">=", -9),
                 UserCon(<<1, 10>>, ">=", 25) >>],
    [mode |-> "max", terms |-> Vec(<<3, 1>>),
     cons |-> << UserCon(<<4, 2>>, "<=", 11), UserCon(<<1, 0>>, ">=", 2),
                 UserCon(<<0, 1>>, ">=", 2) >>],
    [mode |-> "max", terms |-> Vec(<<3, 1>>),
     cons |-> << UserCon(<<4, 2>>, "<=", 11), UserCon(<<1, 0>>, ">=", 1),
                 UserCon(<<1, 0>>, "<=", 2) >>],
    [mode |-> "min", terms |-> <<RZero, <<-99, 10000>>>>,
     cons |-> << UserCon(<<2, 1>>, ">=", 1), UserCon(<<0, 100>>, ">=", 0) >>],
    [mode |-> "max", terms |-> Vec(<<3, 2>>),
     cons |-> << UserCon(<<2, -2>>, "<=", 3), UserCon(<<3, 2>>, "<=", 7) >>] }

Problems ==
  { [mode |-> m, terms |-> t, cons |-> c] :
      m \in {"min", "max"}, t \in ObjPool, c \in SeqsUpTo(ConPool, MaxCons) }
  \cup Scenarios

\* variable ranges handed to an LP: the root's and boxes branching produces
RangePool ==
  { << <<RZero, FP64_INF>>, <<RZero, FP64_INF>> >>,
    << <<R(1), R(2)>>,      <<RZero, FP64_INF>> >>,
    << <<R(2), FP64_INF>>,  <<R(2), FP64_INF>> >>,
    << <<RZero, R(1)>>,     <<R(1), R(1)>> >> }

Workers == 1..NumWorkers

-----------------------------------------------------------------------------
(* State *)

VARIABLES
  prob,                \* the problem the user states
  driver,              \* "solve" or "solveParallel", the call made on ip
  ip,                  \* the IP object
  pc,                  \* the calling thread: "built", "loop", "parallel", "done"
  workingThreadCount,  \* solveParallel's counter of busy threads
  critical,            \* the thread inside an omp critical region, 0 when none
  wpc,                 \* wpc[w]: where thread w is in the parallel region
  nodeOpt,             \* nodeOpt[w]: thread w's popped node (<<>> when empty)
  hasNode,             \* hasNode[w]
  hasActiveThread,     \* hasActiveThread[w]
  children,            \* children[w]: <<leftChildNode, rightChildNode>> of thread w
  nodeLog,             \* history: nodes pushed, expanded, discarded as stale, and
                       \* steps that wrote objValueUpperBound, so far
  lpIn,                \* the arguments of an LP constructed on its own
  lp                   \* that LP object

ipVars == <<prob, driver, ip, pc, workingThreadCount, critical, wpc, nodeOpt,
            hasNode, hasActiveThread, children, nodeLog>>
lpVars == <<lpIn, lp>>
vars == <<prob, driver, ip, pc, workingThreadCount, critical, wpc, nodeOpt,
          hasNode, hasActiveThread, children, nodeLog, lpIn, lp>>

\* 1 when a step changed objValueUpperBound
Wrote(before, after) ==
  IF after.objValueUpperBound # before.objValueUpperBound THEN 1 ELSE 0

NoLP == [stage |-> "none"]
NoIP == [solutionType |-> "none"]

ParInit ==
  /\ workingThreadCount = 0
  /\ critical = 0
  /\ wpc = [w \in Workers |-> "idle"]
  /\ nodeOpt = [w \in Workers |-> <<>>]
  /\ hasNode = [w \in Workers |-> FALSE]
  /\ hasActiveThread = [w \in Workers |-> FALSE]
  /\ children = [w \in Workers |-> <<>>]
  /\ nodeLog = [pushed |-> 0, expanded |-> 0, discarded |-> 0, written |-> 0]

\* an IP object built by IP::IP and addConstraint, about to be solved
Init ==
  /\ prob \in Problems
  /\ driver \in {"solve", "solveParallel"}
  /\ ip = IPBuild(prob)
  /\ pc = "built"
  /\ ParInit
  /\ lpIn = <<>>
  /\ lp = NoLP

-----------------------------------------------------------------------------
(* IP::solve *)

\* init(), the first statement of solve() and of solveParallel(); it returns
\* when the root's LP does
CallInit ==
  /\ pc = "built"
  /\ ip' = init(ip)
  /\ nodeReturns(ip'.objFunc, ip.multiCon, [k \in 1..Len(ip.objFunc) |-> <<RZero, FP64_INF>>])
  /\ pc' = IF driver = "solve" THEN "loop" ELSE "parallel"
  /\ wpc' = IF driver = "solve" THEN wpc ELSE [w \in Workers |-> "top"]
  /\ nodeLog' = [nodeLog EXCEPT !.pushed = @ + Len(ip'.nodeQueue),
                                !.written = @ + Wrote(ip, ip')]
  /\ UNCHANGED <<prob, driver, workingThreadCount, critical, nodeOpt, hasNode,
                 hasActiveThread, children, lpIn, lp>>

\* one turn of the while loop of solve()
SolveLoop ==
  /\ pc = "loop"
  /\ solveLoopCond(ip)
  /\ ip.nodeSolvedCount < MaxNodes
  /\ nodeReturns(ip.objFunc, ip.multiCon, queueTop(ip.nodeQueue).varRangeLeft)
  /\ nodeReturns(ip.objFunc, ip.multiCon, queueTop(ip.nodeQueue).varRangeRight)
  /\ ip' = solveLoopBody(ip)
  /\ nodeLog' = [nodeLog EXCEPT !.expanded = @ + 1,
                                !.pushed = @ + Len(ip'.nodeQueue) - (Len(ip.nodeQueue) - 1),
                                !.written = @ + Wrote(ip, ip')]
  /\ UNCHANGED <<prob, driver, pc, workingThreadCount, critical, wpc, nodeOpt,
                 hasNode, hasActiveThread, children, lpIn, lp>>

\* the loop ends: extremum is set and solve() returns
SolveReturn ==
  /\ pc = "loop"
  /\ ~solveLoopCond(ip)
  /\ ip' = setExtremum(ip)
  /\ pc' = "done"
  /\ UNCHANGED <<prob, driver, workingThreadCount, critical, wpc, nodeOpt,
                 hasNode, hasActiveThread, children, nodeLog, lpIn, lp>>

-----------------------------------------------------------------------------
(* IP::solveParallel: thread w of the team *)

\* if (solutionType == Type::UNBOUNDED) break, read outside any critical region
WTop(w) ==
  /\ pc = "parallel"
  /\ wpc[w] = "top"
  /\ wpc' = [wpc EXCEPT ![w] = IF ip.solutionType = "UNBOUNDED" THEN "exit" ELSE "enter1"]
  /\ hasNode' = [hasNode EXCEPT ![w] = FALSE]
  /\ hasActiveThread' = [hasActiveThread EXCEPT ![w] = FALSE]
  /\ UNCHANGED <<prob, driver, ip, pc, workingThreadCount, critical, nodeOpt,
                 children, nodeLog, lpIn, lp>>

\* entry of the first critical region
WEnter1(w) ==
  /\ pc = "parallel"
  /\ wpc[w] = "enter1"
  /\ critical = 0
  /\ critical' = w
  /\ wpc' = [wpc EXCEPT ![w] = "pop"]
  /\ UNCHANGED <<prob, driver, ip, workingThreadCount, pc, nodeOpt, hasNode,
                 hasActiveThread, children, nodeLog, lpIn, lp>>

\* a pop loop whose comparison is reversed: it keeps a node only when
\* lowerBound > objValueUpperBound
RECURSIVE popLiveReversed(_, _, _)
popLiveReversed(q, last, ub) ==
  IF Len(q) = 0 THEN [q |-> q, nodeOpt |-> last, hasNode |-> FALSE]
  ELSE LET top == queueTop(q)
           rest == queuePop(q)
       IN  IF RLt(ub, top.lowerBound)
             THEN [q |-> rest, nodeOpt |-> top, hasNode |-> TRUE]
             ELSE popLiveReversed(rest, top, ub)

\* the while loop of the first critical region: pop until a node with
\* lowerBound < objValueUpperBound is found or the queue is empty
RECURSIVE popLive(_, _, _)
popLive(q, last, ub) ==
  IF Len(q) = 0 THEN [q |-> q, nodeOpt |-> last, hasNode |-> FALSE]
  ELSE LET top == queueTop(q)
           rest == queuePop(q)
       IN  IF RLt(top.lowerBound, ub)
             THEN [q |-> rest, nodeOpt |-> top, hasNode |-> TRUE]
             ELSE popLive(rest, top, ub)

\* a thread that leaves as soon as it finds no node, busy threads or not
afterPopNoWait(hasNodeW, hasActiveThreadW) ==
  IF ~hasNodeW THEN "exit" ELSE "solve"

\* a thread that tests hasActiveThread alone: it goes round again whenever some
\* thread is busy, itself included
afterPopActiveOnly(hasNodeW, hasActiveThreadW) ==
  IF hasActiveThreadW THEN "top" ELSE "exit"

\* the two tests after the first critical region: where the thread goes next
afterPop(hasNodeW, hasActiveThreadW) ==
  IF ~hasNodeW /\ hasActiveThreadW THEN "top"
  ELSE IF ~hasNodeW /\ ~hasActiveThreadW THEN "exit"
  ELSE "solve"

\* the body of the first critical region, its exit, and the two tests after it
WPop(w) ==
  /\ pc = "parallel"
  /\ wpc[w] = "pop"
  /\ critical = w
  /\ ip.nodeSolvedCount < MaxNodes
  /\ LET r == popLive(ip.nodeQueue, nodeOpt[w], ip.objValueUpperBound)
         count == IF r.hasNode THEN workingThreadCount + 1 ELSE workingThreadCount
         active == count > 0
     IN  /\ ip' = [ip EXCEPT !.nodeQueue = r.q]
         /\ nodeOpt' = [nodeOpt EXCEPT ![w] = r.nodeOpt]
         /\ hasNode' = [hasNode EXCEPT ![w] = r.hasNode]
         /\ hasActiveThread' = [hasActiveThread EXCEPT ![w] = active]
         /\ workingThreadCount' = count
         /\ wpc' = [wpc EXCEPT ![w] = afterPop(r.hasNode, active)]
         /\ nodeLog' = [nodeLog EXCEPT !.discarded =
               @ + (Len(ip.nodeQueue) - Len(r.q)) - (IF r.hasNode THEN 1 ELSE 0)]
  /\ critical' = 0
  /\ UNCHANGED <<prob, driver, pc, children, lpIn, lp>>

\* the two child LPs, solved outside the critical regions
WSolve(w) ==
  /\ pc = "parallel"
  /\ wpc[w] = "solve"
  /\ children' = [children EXCEPT ![w] =
        << Node(ip.objFunc, ip.multiCon, nodeOpt[w].varRangeLeft),
           Node(ip.objFunc, ip.multiCon, nodeOpt[w].varRangeRight) >>]
  /\ children'[w][1].type # "NONE"
  /\ children'[w][2].type # "NONE"
  /\ wpc' = [wpc EXCEPT ![w] = "enter2"]
  /\ UNCHANGED <<prob, driver, ip, pc, workingThreadCount, critical, nodeOpt,
                 hasNode, hasActiveThread, nodeLog, lpIn, lp>>

\* entry of the second critical region
WEnter2(w) ==
  /\ pc = "parallel"
  /\ wpc[w] = "enter2"
  /\ critical = 0
  /\ critical' = w
  /\ wpc' = [wpc EXCEPT ![w] = "checkLeft"]
  /\ UNCHANGED <<prob, driver, ip, workingThreadCount, pc, nodeOpt, hasNode,
                 hasActiveThread, children, nodeLog, lpIn, lp>>

\* checkNode(leftChildNode)
WCheckLeft(w) ==
  /\ pc = "parallel"
  /\ wpc[w] = "checkLeft"
  /\ critical = w
  /\ ip' = checkNode(ip, children[w][1])
  /\ wpc' = [wpc EXCEPT ![w] = "checkRight"]
  /\ nodeLog' = [nodeLog EXCEPT !.pushed = @ + Len(ip'.nodeQueue) - Len(ip.nodeQueue),
                                !.written = @ + Wrote(ip, ip')]
  /\ UNCHANGED <<prob, driver, pc, workingThreadCount, critical, nodeOpt, hasNode,
                 hasActiveThread, children, lpIn, lp>>

\* checkNode(rightChildNode); workingThreadCount--; exit of the region
WCheckRight(w) ==
  /\ pc = "parallel"
  /\ wpc[w] = "checkRight"
  /\ critical = w
  /\ ip' = checkNode(ip, children[w][2])
  /\ workingThreadCount' = workingThreadCount - 1
  /\ critical' = 0
  /\ children' = [children EXCEPT ![w] = <<>>]
  /\ wpc' = [wpc EXCEPT ![w] = "top"]
  /\ nodeLog' = [nodeLog EXCEPT !.pushed = @ + Len(ip'.nodeQueue) - Len(ip.nodeQueue),
                                !.expanded = @ + 1,
                                !.written = @ + Wrote(ip, ip')]
  /\ UNCHANGED <<prob, driver, pc, nodeOpt, hasNode, hasActiveThread, lpIn, lp>>

\* the end of the parallel region (its barrier), and the last statement
ParallelReturn ==
  /\ pc = "parallel"
  /\ \A w \in Workers : wpc[w] = "exit"
  /\ ip' = setExtremum(ip)
  /\ pc' = "done"
  /\ UNCHANGED <<prob, driver, workingThreadCount, critical, wpc, nodeOpt, hasNode,
                 hasActiveThread, children, nodeLog, lpIn, lp>>

Next ==
  \/ CallInit
  \/ SolveLoop
  \/ SolveReturn
  \/ \E w \in Workers : WTop(w)
  \/ \E w \in Workers : WEnter1(w)
  \/ \E w \in Workers : WPop(w)
  \/ \E w \in Workers : WSolve(w)
  \/ \E w \in Workers : WEnter2(w)
  \/ \E w \in Workers : WCheckLeft(w)
  \/ \E w \in Workers : WCheckRight(w)
  \/ ParallelReturn

Spec == Init /\ [][Next]_vars

-----------------------------------------------------------------------------
(* An LP constructed on its own: LP::LP, one pivot at a time *)

NormalisedCons(cons) ==
  [k \in DOMAIN cons |->
     stdOfNegativeRightConst(
       Con(cons[k].terms,
           IF cons[k].mode = "<=" THEN "LEQ" ELSE IF cons[k].mode = ">=" THEN "GEQ" ELSE "EQ",
           cons[k].rightConst))]

\* Tester::lpTests, the LPs the repository's tester hands to LP::LP as written
\* (test 0 and test 1 with the right constant -9 of their second constraint)
lpTests ==
  << [isMin |-> FALSE, objFunc |-> Vec(<<1, 1>>),
      multiCon |-> << Con(Vec(<<4, 3>>), "LEQ", R(17)), Con(Vec(<<2, -5>>), "GEQ", R(-9)),
                      Con(Vec(<<1, 10>>), "GEQ", R(25)) >>,
      varRange |-> << <<RZero, FP64_INF>>, <<RZero, FP64_INF>> >>],
     [isMin |-> FALSE, objFunc |-> Vec(<<1, 1>>),
      multiCon |-> << Con(Vec(<<4, 3>>), "LEQ", R(17)), Con(Vec(<<2, -5>>), "GEQ", R(-9)),
                      Con(Vec(<<1, 10>>), "GEQ", R(30)) >>,
      varRange |-> << <<RZero, FP64_INF>>, <<RZero, FP64_INF>> >>],
     [isMin |-> FALSE, objFunc |-> Vec(<<1, 0>>),
      multiCon |-> << Con(Vec(<<1, -1>>), "LEQ", R(1)), Con(Vec(<<2, -1>>), "LEQ", R(4)) >>,
      varRange |-> << <<RZero, FP64_INF>>, <<RZero, FP64_INF>> >>],
     [isMin |-> FALSE, objFunc |-> Vec(<<3, 1>>),
      multiCon |-> << Con(Vec(<<4, 2>>), "LEQ", R(11)) >>,
      varRange |-> << <<R(2), FP64_INF>>, <<R(2), FP64_INF>> >>],
     [isMin |-> FALSE, objFunc |-> Vec(<<3, 1>>),
      multiCon |-> << Con(Vec(<<4, 2>>), "LEQ", R(11)) >>,
      varRange |-> << <<R(1), R(2)>>, <<RZero, FP64_INF>> >>] >>

\* test i of Tester::lpTests (numbered from 0)
lpTest(i) == lpTests[i + 1]

InitLP ==
  /\ lpIn \in { [isMin |-> m, objFunc |-> t, multiCon |-> NormalisedCons(c), varRange |-> r] :
                  m \in BOOLEAN, t \in ObjPool, c \in SeqsUpTo(ConPool, MaxCons),
                  r \in RangePool }
             \cup {lpTests[k] : k \in DOMAIN lpTests}
  /\ lp = LPNew(lpIn.isMin, lpIn.objFunc, lpIn.multiCon, lpIn.varRange)
  /\ prob = <<>>
  /\ driver = "none"
  /\ ip = NoIP
  /\ pc = "none"
  /\ ParInit

LPCanStep == lp.stage \in {"phase1", "phase2"} /\ lp.pivots < MaxPivots

\* a pivot: Tableau::elimination and the new basis index
LPPivot ==
  /\ LPCanStep
  /\ findNewBaseVarIndex(lp) # -1
  /\ findMinPosRatioRowIndex(lp, findNewBaseVarIndex(lp)) # -1
  /\ lp' = SimplexStep(lp)
  /\ UNCHANGED <<ipVars, lpIn>>

\* no entering column in phase 1: infeasible, or on to phase 2
LPEndPhase1 ==
  /\ LPCanStep
  /\ lp.stage = "phase1"
  /\ findNewBaseVarIndex(lp) = -1
  /\ lp' = SimplexStep(lp)
  /\ UNCHANGED <<ipVars, lpIn>>

\* no entering column in phase 2: handleBound
LPEndPhase2 ==
  /\ LPCanStep
  /\ lp.stage = "phase2"
  /\ findNewBaseVarIndex(lp) = -1
  /\ lp' = SimplexStep(lp)
  /\ UNCHANGED <<ipVars, lpIn>>

\* an entering column and no leaving row: handleUnbound
LPNoLeavingRow ==
  /\ LPCanStep
  /\ findNewBaseVarIndex(lp) # -1
  /\ findMinPosRatioRowIndex(lp, findNewBaseVarIndex(lp)) = -1
  /\ lp' = SimplexStep(lp)
  /\ UNCHANGED <<ipVars, lpIn>>

NextLP == LPPivot \/ LPEndPhase1 \/ LPEndPhase2 \/ LPNoLeavingRow

SpecLP == InitLP /\ [][NextLP]_vars

-----------------------------------------------------------------------------
(* What the answers should be, computed without the simplex: the feasible    *)
(* region of an LP in two variables is a pointed polyhedron, so it is empty  *)
(* exactly when no intersection of two boundary lines is feasible, the       *)
(* objective is unbounded on it exactly when it improves along an extreme    *)
(* ray, and otherwise the optimum is attained at a vertex.                   *)

RECURSIVE DotFrom(_, _, _)
DotFrom(c, x, k) ==
  IF k > Len(c) THEN RZero ELSE RAdd(RMul(c[k], x[k]), DotFrom(c, x, k + 1))
Dot(c, x) == DotFrom(c, x, 1)

SatRel(lhs, relation, rhs) ==
  IF relation = "LEQ" THEN RLe(lhs, rhs)
  ELSE IF relation = "GEQ" THEN RLe(rhs, lhs)
  ELSE lhs = rhs

SatCon(con, x) == SatRel(Dot(con.terms, x), con.relation, con.rightConst)

RelOf(mode) == IF mode = "<=" THEN "LEQ" ELSE IF mode = ">=" THEN "GEQ" ELSE "EQ"
SatUser(ucon, x) == SatRel(Dot(ucon.terms, x), RelOf(ucon.mode), ucon.rightConst)

FeasibleLP(multiCon, varRange, x) ==
  /\ Len(x) = Len(varRange)
  /\ \A v \in DOMAIN x : RLe(RZero, x[v]) /\ RLe(varRange[v][1], x[v]) /\ RLe(x[v], varRange[v][2])
  /\ \A k \in DOMAIN multiCon : SatCon(multiCon[k], x)

\* boundary lines a1 x0 + a2 x1 = b
Lines(multiCon, varRange) ==
  {<<multiCon[k].terms[1], multiCon[k].terms[2], multiCon[k].rightConst>> : k \in DOMAIN multiCon}
  \cup {<<ROne, RZero, RZero>>, <<RZero, ROne, RZero>>}
  \cup {<<ROne, RZero, varRange[1][1]>>, <<RZero, ROne, varRange[2][1]>>}
  \cup (IF IsInf(varRange[1][2]) THEN {} ELSE {<<ROne, RZero, varRange[1][2]>>})
  \cup (IF IsInf(varRange[2][2]) THEN {} ELSE {<<RZero, ROne, varRange[2][2]>>})

Det(l, m) == RSub(RMul(l[1], m[2]), RMul(l[2], m[1]))

\* Cramer's rule
Meet(l, m) ==
  << RDiv(RSub(RMul(l[3], m[2]), RMul(l[2], m[3])), Det(l, m)),
     RDiv(RSub(RMul(l[1], m[3]), RMul(l[3], m[1])), Det(l, m)) >>

Vertices(multiCon, varRange) ==
  LET L == Lines(multiCon, varRange)
      P == {Meet(l, m) : <<l, m>> \in {lm \in L \X L : Det(lm[1], lm[2]) # RZero}}
  IN  {x \in P : FeasibleLP(multiCon, varRange, x)}

\* directions d with x + t d feasible for every feasible x and t >= 0
InRecessionCone(multiCon, varRange, d) ==
  /\ \A v \in DOMAIN d : RLe(RZero, d[v]) /\ (IsInf(varRange[v][2]) \/ d[v] = RZero)
  /\ \A k \in DOMAIN multiCon : SatRel(Dot(multiCon[k].terms, d), multiCon[k].relation, RZero)

Rays(multiCon, varRange) ==
  LET L == Lines(multiCon, varRange)
      D == {<<ROne, RZero>>, <<RZero, ROne>>}
           \cup {<<l[2], RNeg(l[1])>> : l \in L} \cup {<<RNeg(l[2]), l[1]>> : l \in L}
  IN  {d \in D : d # <<RZero, RZero>> /\ InRecessionCone(multiCon, varRange, d)}

\* value a is strictly better than value b in the sense asked for
Better(isMin, a, b) == IF isMin THEN RLt(a, b) ELSE RLt(b, a)

\* a problem as the user states it: x satisfies every constraint, x >= 0
UserFeasible(p, x) ==
  /\ Len(x) = Len(p.terms)
  /\ \A v \in DOMAIN x : RLe(RZero, x[v])
  /\ \A k \in DOMAIN p.cons : SatUser(p.cons[k], x)

\* constraints that bound every variable: sum of a_v x_v <= b or = b, all a_v >= 1
BoundingCons(p) ==
  {k \in DOMAIN p.cons :
     /\ p.cons[k].mode \in {"<=", "="}
     /\ \A v \in DOMAIN p.cons[k].terms : RLe(ROne, p.cons[k].terms[v])}

\* the non-negative integer points of a problem that has a bounding constraint
IntFeasible(p) ==
  LET k == CHOOSE k \in BoundingCons(p) : TRUE
      top == IF RLt(p.cons[k].rightConst, RZero) THEN 0 ELSE RFloor(p.cons[k].rightConst)
  IN  {x \in {<<R(a), R(b)>> : a \in 0..top, b \in 0..top} : UserFeasible(p, x)}

-----------------------------------------------------------------------------
(* Properties of the IP drivers (specification Spec) *)

C2_Holds(F) ==
  IF F = {} THEN ip.solutionType = "INFEASIBLE"
  ELSE /\ ip.solutionType = "BOUNDED"
       /\ ip.solution \in F
       /\ Dot(prob.terms, ip.solution) = ip.extremum
       /\ \A y \in F : ~Better(prob.mode = "min", Dot(prob.terms, y), ip.extremum)

\* C2: when solve() returns on a problem whose region is bounded, then if some
\* non-negative integer point satisfies every constraint the status is BOUNDED,
\* the assignment is such a point and the extremum is its objective value, the
\* best over all such points; and if there is none the status is INFEASIBLE.
C2_SolveReturnsOptimum ==
  (pc = "done" /\ driver = "solve" /\ BoundingCons(prob) # {}) =>
    ByValue(C2_Holds, IntFeasible(prob))

C4_Same(s) ==
  ~solveLoopCond(s) => ip.solutionType = s.solutionType /\ ip.extremum = s.extremum

C5_UpperBoundNonIncreasing ==
  /\ ip.objValueUpperBound = FP64_INF
  /\ [][ip'.objValueUpperBound # ip.objValueUpperBound =>
          /\ RLt(ip'.objValueUpperBound, ip.objValueUpperBound)
          /\ ip'.solutionType = "BOUNDED"
          /\ ip'.objValueUpperBound = Dot(ip'.objFunc, ip'.solution)
          /\ \A v \in DOMAIN ip'.solution : isInt(ip'.solution[v])]_vars

\* the bound was written, and later replaced by a smaller one, by the threads
\* of solveParallel()
C5_Witness ==
  /\ driver = "solveParallel"
  /\ nodeLog.written >= 2
  /\ IsFinite(ip.objValueUpperBound)

\* IP::checkNode writes solutionType for this node (lines of the two branches
\* that assign it)
writesSolutionType(i, node) ==
  \/ node.type = "IP_FEASIBLE" /\ RLt(node.lowerBound, i.objValueUpperBound)
  \/ node.type = "UNBOUNDED"

\* C6: in solveParallel() no thread reads or writes the queue, the bound, the
\* incumbent, the status or the counter outside a critical region; so no
\* thread is at a statement that reads the status while another thread is
\* inside the check region at a checkNode that writes it.
C6_NoAccessWhileMutated ==
  \A w, u \in Workers :
    (pc = "parallel" /\ w # u /\ wpc[w] = "top") =>
      ~(/\ critical = u
        /\ \/ wpc[u] = "checkLeft" /\ writesSolutionType(ip, children[u][1])
           \/ wpc[u] = "checkRight" /\ writesSolutionType(ip, children[u][2]))

\* C7: a thread of solveParallel() leaves its loop either at the status test,
\* the status being UNBOUNDED, or at the end of the first critical region,
\* having found there the queue empty and workingThreadCount 0; and when
\* solveParallel() has returned with another status than UNBOUNDED the queue is
\* empty, workingThreadCount is 0, every thread has left, and every node ever
\* pushed was expanded or discarded as stale.
C7_ExitOnlyWhenDrained ==
  /\ [][\A w \in Workers :
          (wpc[w] # "exit" /\ wpc'[w] = "exit") =>
             \/ wpc[w] = "top" /\ ip.solutionType = "UNBOUNDED"
             \/ /\ wpc[w] = "pop"
                /\ critical = w
                /\ Len(ip'.nodeQueue) = 0
                /\ workingThreadCount' = 0]_vars
  /\ []((pc = "done" /\ driver = "solveParallel" /\ ip.solutionType # "UNBOUNDED") =>
          /\ Len(ip.nodeQueue) = 0
          /\ workingThreadCount = 0
          /\ \A w \in Workers : wpc[w] = "exit"
          /\ nodeLog.pushed = nodeLog.expanded + nodeLog.discarded)

\* solveParallel() has returned, not UNBOUNDED, after a node was expanded and a
\* stale node was discarded
C7_Witness ==
  /\ pc = "done"
  /\ driver = "solveParallel"
  /\ ip.solutionType # "UNBOUNDED"
  /\ nodeLog.expanded >= 1
  /\ nodeLog.discarded >= 1

\* the same problem asked in the other sense: (max, c) for (min, -c)
Mirror(p) ==
  [mode |-> IF p.mode = "min" THEN "max" ELSE "min",
   terms |-> [k \in DOMAIN p.terms |-> RNeg(p.terms[k])],
   cons |-> p.cons]

C10_SameIP(m) ==
  ~solveLoopCond(m) =>
    /\ m.solutionType = ip.solutionType
    /\ m.extremum = RNeg(ip.extremum)
    /\ driver = "solve" => m.solution = ip.solution

C10_SameLP(a, b) ==
  /\ a.stage = "done" /\ b.stage = "done"
  /\ a.solutionType = b.solutionType
  /\ a.solution = b.solution
  /\ a.extremum = RNeg(b.extremum)

RootRange(p) == [k \in DOMAIN p.terms |-> <<RZero, FP64_INF>>]

\* C10: a problem and its mirror, (max, c) and (min, -c), end with the same
\* status and the same assignment and with extrema that are negatives of each
\* other, in the IP drivers and in the LP engine (on the root relaxation); and
\* a BOUNDED extremum is the user's own objective at the assignment.
C10_MirrorSameAnswer ==
  pc = "done" =>
    /\ ByValue(C10_SameIP, solve(IPBuild(Mirror(prob))))
    /\ ByValue(LAMBDA a :
                 ByValue(LAMBDA b : C10_SameLP(a, b),
                         LPSolve(prob.mode # "min", Mirror(prob).terms,
                                 ip.multiCon, RootRange(prob))),
               LPSolve(prob.mode = "min", prob.terms, ip.multiCon, RootRange(prob)))
    /\ ip.solutionType = "BOUNDED" => ip.extremum = Dot(prob.terms, ip.solution)

\* a max problem solved to a non-zero optimum after branching
C10_Witness ==
  /\ pc = "done"
  /\ driver = "solve"
  /\ prob.mode = "max"
  /\ ip.solutionType = "BOUNDED"
  /\ ip.extremum # RZero
  /\ nodeLog.expanded >= 1

\* C15: when solve() or solveParallel() has returned UNBOUNDED, the extremum is
\* -infinity for a min problem and +infinity for a max problem.
C15_UnboundedExtremumSign ==
  (pc = "done" /\ ip.solutionType = "UNBOUNDED") =>
    ip.extremum = IF ip.isMin THEN FP64_NEG_INF ELSE FP64_INF

C16_LPInfeasible(l) ==
  (l.stage = "done" /\ l.solutionType = "INFEASIBLE") =>
    /\ IsNaN(l.extremum)
    /\ \A v \in DOMAIN l.solution : l.solution[v] = RZero

C17_UnboundedHalts ==
  [][ip.solutionType = "UNBOUNDED" =>
       /\ ip'.solutionType = "UNBOUNDED"
       /\ nodeLog'.expanded = nodeLog.expanded]_vars

\* how often x occurs in the sequence q
Count(q, x) == Cardinality({k \in DOMAIN q : q[k] = x})

\* the incumbent bound, the incumbent solution and the status are the same
SameIncumbent(a, b) ==
  /\ b.objValueUpperBound = a.objValueUpperBound
  /\ b.solution = a.solution
  /\ b.solutionType = a.solutionType

\* b is what checkNode(n) may leave of a
C22_Effect(a, b, n) ==
  IF n.type = "IP_FEASIBLE" /\ RLt(n.lowerBound, a.objValueUpperBound)
    THEN /\ b.solutionType = "BOUNDED"
         /\ b.solution = n.solution
         /\ b.objValueUpperBound = n.lowerBound
         /\ b.nodeQueue = a.nodeQueue
  ELSE IF n.type = "LP_FEASIBLE" /\ RLt(n.lowerBound, a.objValueUpperBound)
    THEN /\ Len(b.nodeQueue) = Len(a.nodeQueue) + 1
         /\ \A k \in DOMAIN b.nodeQueue :
              Count(b.nodeQueue, b.nodeQueue[k]) =
                Count(a.nodeQueue, b.nodeQueue[k]) + (IF b.nodeQueue[k] = n THEN 1 ELSE 0)
         /\ Count(b.nodeQueue, n) >= 1
         /\ SameIncumbent(a, b)
  ELSE IF n.type = "UNBOUNDED"
    THEN /\ b.solutionType = "UNBOUNDED"
         /\ b.objValueUpperBound = a.objValueUpperBound
         /\ b.solution = a.solution
         /\ b.nodeQueue = a.nodeQueue
  ELSE /\ b.nodeQueue = a.nodeQueue
       /\ SameIncumbent(a, b)

\* the two checkNode calls of one turn of the loop of solve()
C22_LoopTurn(leftChildNode, rightChildNode) ==
  LET popped == [ip EXCEPT !.nodeQueue = queuePop(ip.nodeQueue)]
  IN  ByValue(LAMBDA mid :
                /\ C22_Effect(popped, mid, leftChildNode)
                /\ ByValue(LAMBDA end : /\ C22_Effect(mid, end, rightChildNode)
                                        /\ end = [solveLoopBody(ip) EXCEPT
                                                    !.nodeSolvedCount = end.nodeSolvedCount],
                           checkNode(mid, rightChildNode)),
              checkNode(popped, leftChildNode))

\* C22: checkNode(n) has these effects and no other on the queue, the incumbent
\* bound, the incumbent solution and the status: an IP_FEASIBLE node under the
\* bound replaces solution and bound and sets BOUNDED, the queue untouched; an
\* LP_FEASIBLE node under the bound is pushed, nothing else; an UNBOUNDED node
\* sets UNBOUNDED, nothing else; any other node changes none of the four.  It
\* holds for the calls of the threads of solveParallel() and for the two calls
\* of every turn of the loop of solve(); and every queued node is LP_FEASIBLE.
C22_CheckNodeEffects ==
  /\ [][\A w \in Workers :
          /\ (wpc[w] = "checkLeft" /\ wpc'[w] = "checkRight") =>
               C22_Effect(ip, ip', children[w][1])
          /\ (wpc[w] = "checkRight" /\ wpc'[w] = "top") =>
               C22_Effect(ip, ip', children[w][2])]_vars
  /\ []((pc = "loop" /\ solveLoopCond(ip)) =>
          ByValue(LAMBDA leftChildNode :
            ByValue(LAMBDA rightChildNode : C22_LoopTurn(leftChildNode, rightChildNode),
                    Node(ip.objFunc, ip.multiCon, queueTop(ip.nodeQueue).varRangeRight)),
            Node(ip.objFunc, ip.multiCon, queueTop(ip.nodeQueue).varRangeLeft)))
  /\ [](ip.solutionType # "none" =>
          \A k \in DOMAIN ip.nodeQueue : ip.nodeQueue[k].type = "LP_FEASIBLE")

\* solveParallel() has returned after its threads pushed nodes, stored an
\* incumbent and met nodes that changed nothing
C22_Witness ==
  /\ pc = "done"
  /\ driver = "solveParallel"
  /\ nodeLog.pushed >= 2
  /\ nodeLog.written >= 1
  /\ ip.nodeSolvedCount > 1 + nodeLog.pushed + nodeLog.written

\* a node built for the box varRange is classified and split as C23 says
C23_NodeOk(node, varRange) ==
  LET frac == {v \in DOMAIN node.solution :
                 RLt(<<1, EPS_DEN>>,
                     IF RLt(RSub(node.solution[v], R(RRound(node.solution[v]))), RZero)
                       THEN RSub(R(RRound(node.solution[v])), node.solution[v])
                       ELSE RSub(node.solution[v], R(RRound(node.solution[v]))))}
      v == CHOOSE v \in frac : \A u \in frac : v <= u
      s == R(RFloor(node.solution[v]))
  IN  node.type \in {"IP_FEASIBLE", "LP_FEASIBLE"} =>
        /\ node.type = "IP_FEASIBLE" <=> frac = {}
        /\ node.type = "LP_FEASIBLE" =>
             /\ node.varRangeLeft = [varRange EXCEPT ![v][2] = s]
             /\ node.varRangeRight = [varRange EXCEPT ![v][1] = RAdd(s, ROne)]
             /\ \A u \in DOMAIN varRange : u # v =>
                  /\ node.varRangeLeft[u] = varRange[u]
                  /\ node.varRangeRight[u] = varRange[u]

GridMax == 6

InBox(x, box) ==
  \A k \in DOMAIN box : RLe(box[k][1], x[k]) /\ RLe(x[k], box[k][2])

IntegerBox(box) ==
  \A k \in DOMAIN box :
    /\ RLe(box[k][1], box[k][2])
    /\ box[k][1][2] = 1 /\ box[k][1][1] >= 0
    /\ box[k][2] = FP64_INF \/ (box[k][2][2] = 1 /\ box[k][2][1] >= 0)

C28_SplitOk(node, box) ==
  node.type = "LP_FEASIBLE" =>
    /\ IntegerBox(node.varRangeLeft)
    /\ IntegerBox(node.varRangeRight)
    /\ \A p \in [DOMAIN box -> 0..GridMax] :
         LET x == [k \in DOMAIN box |-> R(p[k])]
         IN  IF InBox(x, box)
               THEN InBox(x, node.varRangeLeft) # InBox(x, node.varRangeRight)
               ELSE ~InBox(x, node.varRangeLeft) /\ ~InBox(x, node.varRangeRight)
    /\ InBox(node.solution, box)
    /\ ~InBox(node.solution, node.varRangeLeft)
    /\ ~InBox(node.solution, node.varRangeRight)

\* C28: the two boxes of an LP_FEASIBLE node are non-empty boxes with integer
\* bounds >= 0, every integer point of the node's own box lies in exactly one
\* of them and no other integer point in either, and the node's solution lies
\* in its own box and in neither child box.  It is checked for the root, for
\* the children a thread of solveParallel() holds and for the children of the
\* node solve() is about to pop.
C28_ChildBoxesPartition ==
  /\ pc = "built" =>
       ByValue(LAMBDA n : C28_SplitOk(n, RootRange(prob)),
               Node(ip.objFunc, ip.multiCon, RootRange(prob)))
  /\ \A w \in Workers : wpc[w] \in {"enter2", "checkLeft", "checkRight"} =>
       /\ C28_SplitOk(children[w][1], nodeOpt[w].varRangeLeft)
       /\ C28_SplitOk(children[w][2], nodeOpt[w].varRangeRight)
  /\ (pc = "loop" /\ solveLoopCond(ip)) =>
       /\ ByValue(LAMBDA n : C28_SplitOk(n, queueTop(ip.nodeQueue).varRangeLeft),
                  Node(ip.objFunc, ip.multiCon, queueTop(ip.nodeQueue).varRangeLeft))
       /\ ByValue(LAMBDA n : C28_SplitOk(n, queueTop(ip.nodeQueue).varRangeRight),
                  Node(ip.objFunc, ip.multiCon, queueTop(ip.nodeQueue).varRangeRight))

\* what thread w's turn through the first critical region does
C25_PopStep(w) ==
  (wpc[w] = "pop" /\ wpc'[w] # "pop") =>
    IF wpc'[w] = "solve"
      THEN /\ nodeOpt'[w] = queueTop(ip.nodeQueue)
           /\ RLt(nodeOpt'[w].lowerBound, ip.objValueUpperBound)
           /\ Len(ip'.nodeQueue) = Len(ip.nodeQueue) - 1
           /\ workingThreadCount' = workingThreadCount + 1
      ELSE /\ \A k \in 1..Len(ip.nodeQueue) :
                ~RLt(ip.nodeQueue[k].lowerBound, ip.objValueUpperBound)
           /\ ip'.nodeQueue = <<>>
           /\ workingThreadCount' = workingThreadCount
           /\ ip'.nodeSolvedCount = ip.nodeSolvedCount
           /\ children' = children

\* thread w solves child LPs only for the node it kept
C25_SolveStep(w) ==
  (children'[w] # children[w] /\ children'[w] # <<>>) =>
    /\ wpc[w] = "solve"
    /\ hasNode[w]
    /\ children'[w] = << Node(ip.objFunc, ip.multiCon, nodeOpt[w].varRangeLeft),
                         Node(ip.objFunc, ip.multiCon, nodeOpt[w].varRangeRight) >>

\* C25: in solveParallel a thread solves the child LPs of a node only if the
\* node's lower bound was below the incumbent when the thread popped it inside
\* the first critical region; when the top of the queue is not below the
\* incumbent the thread empties the queue inside the region, solves nothing
\* and leaves workingThreadCount as it was
C25_LiveWhenPopped ==
  [][\A w \in Workers : C25_PopStep(w) /\ C25_SolveStep(w)]_vars

\* C25 as stated: the node is still below the incumbent when the thread starts
\* to solve its children
C25_LiveAtSolveStart ==
  \A w \in Workers :
    (pc = "parallel" /\ wpc[w] = "solve") =>
      RLt(nodeOpt[w].lowerBound, ip.objValueUpperBound)

\* a thread kept a node and solved its children, and a thread found the top of
\* the queue dominated and discarded it
C25_Witness ==
  /\ pc = "parallel"
  /\ nodeLog.expanded > 0
  /\ nodeLog.discarded > 0

\* C26: solve() never pushes a node whose lower bound is >= the incumbent and
\* never expands one: a turn of its loop solves child LPs only for a top node
\* whose lower bound is below the incumbent
C26_SequentialPrunesDominated ==
  /\ [][(pc = "loop" /\ ip'.nodeSolvedCount > ip.nodeSolvedCount) =>
          RLt(queueTop(ip.nodeQueue).lowerBound, ip.objValueUpperBound)]_vars
  /\ [][pc = "loop" =>
          \A k \in 1..Len(ip'.nodeQueue) :
            ip'.nodeQueue[k] \in {ip.nodeQueue[j] : j \in 1..Len(ip.nodeQueue)} \/
            RLt(ip'.nodeQueue[k].lowerBound, ip'.objValueUpperBound) \/
            ip'.nodeQueue[k] = Node(ip.objFunc, ip.multiCon,
                                    queueTop(ip.nodeQueue).varRangeLeft)]_vars

\* threads of solveParallel() between the pop of a live node and the end of
\* checkNode on its second child
C29_Busy == {w \in Workers : wpc[w] \in {"solve", "enter2", "checkLeft", "checkRight"}}

\* C29: in solveParallel() workingThreadCount is the number of threads that
\* popped a live node and have not finished checkNode on both children; it is
\* at most the number of threads, it is decremented only when positive, by 1,
\* and it is 0 when solveParallel() has returned
C29_CounterIsBusyThreads ==
  /\ [](driver = "solveParallel" =>
          /\ workingThreadCount = Cardinality(C29_Busy)
          /\ workingThreadCount <= NumWorkers
          /\ pc = "done" => workingThreadCount = 0)
  /\ [][workingThreadCount' < workingThreadCount =>
          /\ workingThreadCount > 0
          /\ workingThreadCount' = workingThreadCount - 1]_vars

\* every thread of the team is busy with a node, after a first node was expanded
C29_Witness ==
  /\ driver = "solveParallel"
  /\ pc = "parallel"
  /\ workingThreadCount = NumWorkers
  /\ nodeLog.expanded > 0

-----------------------------------------------------------------------------
(* Properties of the LP engine (specification SpecLP) *)

C8_InfeasibleOnlyIfNoSolution ==
  (lp.stage = "done" /\ lp.solutionType = "INFEASIBLE") =>
    Vertices(lpIn.multiCon, lpIn.varRange) = {}

C9_Same(r) ==
  r.stage = "done" => r.solutionType = lp.solutionType /\ r.extremum = lp.extremum

\* C9: when the last constraint of an LP is a copy of an earlier one, LP::LP
\* ends with the status and the extremum it ends with on the LP without that
\* last constraint.
C9_RedundantConstraintNoEffect ==
  LET mc == lpIn.multiCon
      n == Len(mc)
  IN  (lp.stage = "done" /\ n >= 2 /\ \E k \in 1..(n - 1) : mc[k] = mc[n]) =>
        ByValue(C9_Same, LPSolve(lpIn.isMin, lpIn.objFunc, SubSeq(mc, 1, n - 1),
                                 lpIn.varRange))

\* C11: when LP::LP ends UNBOUNDED, for min and for max, solution is feasible
\* and unboundedDirection is a certificate: it is not the zero vector, solution
\* + t * unboundedDirection stays feasible for every t >= 0, and the objective
\* improves along it.
C11_DirectionIsCertificate ==
  (lp.stage = "done" /\ lp.solutionType = "UNBOUNDED") =>
    /\ FeasibleLP(lpIn.multiCon, lpIn.varRange, lp.solution)
    /\ \E v \in DOMAIN lp.unboundedDirection : lp.unboundedDirection[v] # RZero
    /\ InRecessionCone(lpIn.multiCon, lpIn.varRange, lp.unboundedDirection)
    /\ Better(lpIn.isMin, Dot(lpIn.objFunc, lp.unboundedDirection), RZero)

\* C12 (as the code has it): for test 2 of Tester::lpTests, max x0 under
\* x0 - x1 <= 1, 2 x0 - x1 <= 4, LP::LP ends UNBOUNDED at solution (3, 2) with a
\* direction that is a positive multiple of (1, 2).
C12_Test2DirectionOneTwo ==
  (lp.stage = "done" /\ lpIn = lpTest(2)) =>
    /\ lp.solutionType = "UNBOUNDED"
    /\ lp.solution = <<R(3), R(2)>>
    /\ RLt(RZero, lp.unboundedDirection[1])
    /\ lp.unboundedDirection[2] = RMul(R(2), lp.unboundedDirection[1])

\* C12 as stated: for that LP the direction is a positive multiple of (1, 1).
C12_Test2DirectionOneOne ==
  (lp.stage = "done" /\ lpIn = lpTest(2)) =>
    /\ lp.solutionType = "UNBOUNDED"
    /\ RLt(RZero, lp.unboundedDirection[1])
    /\ lp.unboundedDirection[2] = lp.unboundedDirection[1]

\* test 2 has been solved, after pivots
C12_Witness ==
  /\ lp.stage = "done"
  /\ lpIn = lpTest(2)
  /\ lp.pivots >= 1

\* C13 (as the code has it): for test 0 of Tester::lpTests LP::LP ends BOUNDED
\* with extremum 64/13 (about 4.9231) at x0 = 29/13, x1 = 35/13, both > 0; for
\* test 1, the same LP with x0 + 10 x1 >= 30, it ends INFEASIBLE.
C13_Test0Extremum ==
  /\ (lp.stage = "done" /\ lpIn = lpTest(0)) =>
       /\ lp.solutionType = "BOUNDED"
       /\ lp.extremum = <<64, 13>>
       /\ lp.solution = << <<29, 13>>, <<35, 13>> >>
       /\ RLt(RZero, lp.solution[1]) /\ RLt(RZero, lp.solution[2])
  /\ (lp.stage = "done" /\ lpIn = lpTest(1)) => lp.solutionType = "INFEASIBLE"

\* C13 as stated: for test 0 the extremum is about 5.6538 (within 0.001).
C13_Test0ExtremumAsStated ==
  /\ (lp.stage = "done" /\ lpIn = lpTest(0)) =>
       /\ lp.solutionType = "BOUNDED"
       /\ RLt(<<56528, 10000>>, lp.extremum) /\ RLt(lp.extremum, <<56548, 10000>>)
       /\ RLt(RZero, lp.solution[1]) /\ RLt(RZero, lp.solution[2])
  /\ (lp.stage = "done" /\ lpIn = lpTest(1)) => lp.solutionType = "INFEASIBLE"

\* test 0 has been solved, through both phases
C13_Witness ==
  /\ lp.stage = "done"
  /\ lpIn = lpTest(0)
  /\ lp.pivots >= 3

C20_RightConstNonNegative ==
  lp.stage \in {"phase1", "phase2", "done"} =>
    \A i \in 1..(lp.rows - 1) : RLe(RZero, lp.arr[i][lp.cols - 1])

C21_Same(fast, i, j) ==
      /\ fast = elimination(lp.arr, i, j)
      /\ \A k \in 0..(lp.rows - 1) :
           /\ fast[k][j] = IF k = i THEN ROne ELSE RZero
           /\ \A c \in 0..(lp.cols - 1) :
                fast[k][c] =
                  IF k = i THEN RDiv(lp.arr[i][c], lp.arr[i][j])
                  ELSE IF c = j THEN RZero
                  ELSE RSub(lp.arr[k][c],
                            RMul(RDiv(lp.arr[k][j], lp.arr[i][j]), lp.arr[i][c]))
      /\ bufferAccesses(lp.cols, flatten(lp.arr, lp.rows, lp.cols), i, j)
           \subseteq 0..(lp.rows * lp.cols - 1)

C21_SamePivot(i, j) ==
  ByValue(LAMBDA fast : C21_Same(fast, i, j),
          eliminationAccelerated(lp.arr, lp.rows, lp.cols, i, j))

\* C21: for every tableau of a solve that has an entering column j, and every
\* constraint row i with A[i,j] # 0 (the rows a pivot on column j can take),
\* parallelArrayElimination and the scalar path of Tableau::elimination give
\* the same tableau: row i divided by A[i,j], every other row k less
\* (A[k,j] / A[i,j]) times the old row i, column j exactly 1 at row i and 0
\* elsewhere; and every buffer index the accelerated path touches is inside
\* the buffer, whatever the column count.
C21_AcceleratedSameAsScalar ==
  (lp.stage \in {"phase1", "phase2"} /\ findNewBaseVarIndex(lp) # -1) =>
    \A i \in 1..(lp.rows - 1) :
      lp.arr[i][findNewBaseVarIndex(lp)] # RZero =>
        C21_SamePivot(i, findNewBaseVarIndex(lp))

\* a tableau after pivots whose column count is not a multiple of 4 and has a
\* vector part and a scalar rest, with a pivot position whose entry is not 1
C21_Witness ==
  /\ lp.stage = "phase2"
  /\ lp.pivots >= 1
  /\ lp.cols % simdWidth # 0
  /\ lp.cols > simdWidth
  /\ findNewBaseVarIndex(lp) # -1
  /\ \E i \in 1..(lp.rows - 1) : lp.arr[i][findNewBaseVarIndex(lp)] \notin {RZero, ROne}

-----------------------------------------------------------------------------
(* Building a problem: IP::IP followed by calls of addConstraint.  prob      *)
(* records the calls as the caller made them, ip is the object they built.   *)

MaxAddCalls == 3

\* sense strings a caller passes to IP::IP
BuildModes == {"min", "max", "minimize"}

\* objective term lists a caller passes to IP::IP
BuildObjs == {<<>>, Vec(<<1, 1>>), <<FP64_NAN, ROne>>}

\* constraints a caller passes to addConstraint
BuildCons ==
  { UserCon(<<1, 1>>, "<=", 3), UserCon(<<1, 1>>, "=", 2),
    UserCon(<<1, -1>>, "<", 1),
    [terms |-> <<FP64_NAN, ROne>>, mode |-> ">=", rightConst |-> R(2)] }

InitBuild ==
  /\ prob = [mode |-> "none", terms |-> <<>>, cons |-> <<>>]
  /\ driver = "none"
  /\ ip = NoIP
  /\ pc = "new"
  /\ ParInit
  /\ lpIn = <<>>
  /\ lp = NoLP

\* IP::IP
Construct ==
  /\ pc = "new"
  /\ \E mode \in BuildModes, terms \in BuildObjs :
       /\ ip' = IPNew(mode, terms)
       /\ prob' = [mode |-> mode, terms |-> terms, cons |-> <<>>]
  /\ pc' = "building"
  /\ UNCHANGED <<driver, workingThreadCount, critical, wpc, nodeOpt, hasNode,
                 hasActiveThread, children, nodeLog, lpIn, lp>>

\* IP::addConstraint
AddConstraint ==
  /\ pc = "building"
  /\ Len(prob.cons) < MaxAddCalls
  /\ \E c \in BuildCons :
       /\ ip' = addConstraint(ip, c.terms, c.mode, c.rightConst)
       /\ prob' = [prob EXCEPT !.cons = Append(@, c)]
  /\ UNCHANGED <<driver, pc, workingThreadCount, critical, wpc, nodeOpt, hasNode,
                 hasActiveThread, children, nodeLog, lpIn, lp>>

NextBuild == Construct \/ AddConstraint

SpecBuild == InitBuild /\ [][NextBuild]_vars

\* a term list with no NaN coefficient
NoNaN(terms) == \A k \in DOMAIN terms : ~IsNaN(terms[k])

WellFormedObjective(mode, terms) ==
  /\ mode \in {"min", "max"}
  /\ terms # <<>>
  /\ NoNaN(terms)

WellFormedConstraint(c) ==
  /\ c.mode \in {"<=", "=", ">="}
  /\ NoNaN(c.terms)
  /\ ~IsNaN(c.rightConst)

\* C14: a malformed call is rejected and leaves the handle as it was: an IP
\* object exists only for a well-formed sense and objective, and it holds
\* exactly the constraints of the well-formed addConstraint calls.
C14_MalformedRejected ==
  pc = "building" =>
    /\ WellFormedObjective(prob.mode, prob.terms)
    /\ Len(ip.multiCon) =
         Cardinality({k \in DOMAIN prob.cons : WellFormedConstraint(prob.cons[k])})

-----------------------------------------------------------------------------
(* The node queue alone: pushes and pops of IP::nodeQueue, a                 *)
(* std::priority_queue ordered by Node::cmp.  A node carries its lower bound *)
(* and the number of pushes before it.                                       *)

MaxPushes == 5

\* lower bounds of the nodes pushed
HeapBounds == {R(1), R(2)}

InitHeap ==
  /\ prob = <<>>
  /\ driver = "none"
  /\ ip = IPNew("min", Vec(<<1, 1>>))
  /\ pc = "queue"
  /\ ParInit
  /\ lpIn = <<>>
  /\ lp = NoLP

\* nodeQueue.push(node)
HeapPush ==
  /\ pc = "queue"
  /\ nodeLog.pushed < MaxPushes
  /\ \E b \in HeapBounds :
       ip' = [ip EXCEPT !.nodeQueue =
                queuePush(@, [lowerBound |-> b, serial |-> nodeLog.pushed])]
  /\ nodeLog' = [nodeLog EXCEPT !.pushed = @ + 1]
  /\ UNCHANGED <<prob, driver, pc, workingThreadCount, critical, wpc, nodeOpt,
                 hasNode, hasActiveThread, children, lpIn, lp>>

\* nodeQueue.top() and nodeQueue.pop()
HeapPop ==
  /\ pc = "queue"
  /\ Len(ip.nodeQueue) > 0
  /\ ip' = [ip EXCEPT !.nodeQueue = queuePop(@)]
  /\ nodeLog' = [nodeLog EXCEPT !.expanded = @ + 1]
  /\ UNCHANGED <<prob, driver, pc, workingThreadCount, critical, wpc, nodeOpt,
                 hasNode, hasActiveThread, children, lpIn, lp>>

NextHeap == HeapPush \/ HeapPop

SpecHeap == InitHeap /\ [][NextHeap]_vars

\* C18: the node a pop returns, nodeQueue.top(), has the least lower bound of
\* the queued nodes, and of the queued nodes with that lower bound it is the
\* one pushed first.
C18_TopIsMinThenFirstPushed ==
  Len(ip.nodeQueue) > 0 =>
    \A k \in DOMAIN ip.nodeQueue :
      /\ RLe(queueTop(ip.nodeQueue).lowerBound, ip.nodeQueue[k].lowerBound)
      /\ ip.nodeQueue[k].lowerBound = queueTop(ip.nodeQueue).lowerBound =>
           queueTop(ip.nodeQueue).serial <= ip.nodeQueue[k].serial

-----------------------------------------------------------------------------
(* LP::LP, one pivot at a time, on the LPs of SpecLP, on two LPs in four     *)
(* variables whose only vertex is the origin, where many bases meet, and on  *)
(* LPs whose coefficients are of the size of FOP::EPS.                       *)

degenerateLPs ==
  { [isMin |-> TRUE, objFunc |-> Vec(<<1, 5, 5, -6>>),
     multiCon |-> << Con(Vec(<<-5, 4, 1, -5>>), "LEQ", RZero),
                     Con(Vec(<<2, 6, -5, 6>>), "GEQ", RZero) >>,
     varRange |-> [k \in 1..4 |-> <<RZero, FP64_INF>>]],
    [isMin |-> TRUE, objFunc |-> Vec(<<6, -1, -3, 0>>),
     multiCon |-> << Con(Vec(<<1, -4, -1, -3>>), "LEQ", RZero),
                     Con(Vec(<<-6, -1, -3, -5>>), "LEQ", RZero),
                     Con(Vec(<<-5, 6, 2, -5>>), "LEQ", RZero) >>,
     varRange |-> [k \in 1..4 |-> <<RZero, FP64_INF>>]] }

\* 0.000075 x0 = 1 with 0.000075 x0 + x1 = 2, and 0.000075 x0 >= 1 with 0.000075 x0 >= 2
smallCoefficientLPs ==
  { [isMin |-> TRUE, objFunc |-> Vec(<<1, 1>>),
     multiCon |-> << Con(<< <<3, 40000>>, RZero >>, "EQ", R(1)),
                     Con(<< <<3, 40000>>, ROne >>, "EQ", R(2)) >>,
     varRange |-> [k \in 1..2 |-> <<RZero, FP64_INF>>]],
    [isMin |-> TRUE, objFunc |-> Vec(<<1, 1>>),
     multiCon |-> << Con(<< <<3, 40000>>, RZero >>, "GEQ", R(1)),
                     Con(<< <<3, 40000>>, RZero >>, "GEQ", R(2)) >>,
     varRange |-> [k \in 1..2 |-> <<RZero, FP64_INF>>]] }

InitDegenerate ==
  /\ lpIn \in { [isMin |-> m, objFunc |-> t, multiCon |-> NormalisedCons(c), varRange |-> r] :
                  m \in BOOLEAN, t \in ObjPool, c \in SeqsUpTo(ConPool, MaxCons),
                  r \in RangePool }
             \cup {lpTests[k] : k \in DOMAIN lpTests}
             \cup degenerateLPs \cup smallCoefficientLPs
  /\ lp = LPNew(lpIn.isMin, lpIn.objFunc, lpIn.multiCon, lpIn.varRange)
  /\ prob = <<>>
  /\ driver = "none"
  /\ ip = NoIP
  /\ pc = "none"
  /\ ParInit

SpecDegenerate == InitDegenerate /\ [][NextLP]_vars

\* the tableaus LP::LP went through from its first one to the tableau l
RECURSIVE tableausUpTo(_, _)
tableausUpTo(from, l) ==
  IF from = l \/ from.stage = "done" THEN <<from>>
  ELSE <<from>> \o ByValue(LAMBDA next : tableausUpTo(next, l), SimplexStep(from))

\* C24: within one phase of an LP solve no basis returns after a pivot, and
\* the solve ends within the pivots the model allows
C24_NoBasisTwice ==
  LET seen == tableausUpTo(LPNew(lpIn.isMin, lpIn.objFunc, lpIn.multiCon, lpIn.varRange), lp)
  IN  /\ \A a, b \in DOMAIN seen :
           (a < b /\ seen[a].stage = seen[b].stage /\ seen[a].pivots < seen[b].pivots) =>
             seen[a].baseVarIndexs # seen[b].baseVarIndexs
      /\ lp.stage # "done" => lp.pivots < MaxPivots

\* C27: an LP whose answer is not UNBOUNDED carries an empty direction, and an
\* INFEASIBLE one carries no solution either: phase 1 always finds a leaving
\* row for its entering column
C27_DirectionOnlyWhenUnbounded ==
  /\ (lp.stage = "done" /\ lp.solutionType # "UNBOUNDED") => lp.unboundedDirection = <<>>
  /\ (lp.stage = "done" /\ lp.solutionType = "INFEASIBLE") => lp.solution = <<>>
  /\ (lp.stage = "phase1" /\ findNewBaseVarIndex(lp) # -1) =>
       findMinPosRatioRowIndex(lp, findNewBaseVarIndex(lp)) # -1

-----------------------------------------------------------------------------
(* The IP drivers on the problems of Spec and on a problem with a            *)
(* coefficient below FOP::EPS: min -3 x0 - 3 x1 under -5 x0 <= 1,            *)
(* x0 + 0.000075 x1 <= 0.                                                    *)

smallCoefficientProblems ==
  { [mode |-> "min", terms |-> Vec(<<-3, -3>>),
     cons |-> << UserCon(<<-5, 0>>, "<=", 1),
                 [terms |-> << ROne, <<3, 40000>> >>, mode |-> "<=",
                  rightConst |-> RZero] >>] }

InitScaled ==
  /\ prob \in Problems \cup smallCoefficientProblems
  /\ driver \in {"solve", "solveParallel"}
  /\ ip = IPBuild(prob)
  /\ pc = "built"
  /\ ParInit
  /\ lpIn = <<>>
  /\ lp = NoLP

SpecScaled == InitScaled /\ [][Next]_vars

-----------------------------------------------------------------------------
(* The IP drivers under weak fairness of every step, on the problems of Spec *)
(* that hold a bounding constraint and on a problem in four variables:       *)
(* min x0 + 5 x1 + 5 x2 - 6 x3 under -5 x0 + 4 x1 + x2 - 5 x3 <= 0,          *)
(* 2 x0 + 6 x1 - 5 x2 + 6 x3 >= 0, x0 + x1 + x2 + x3 <= 10.                  *)

degenerateProblems ==
  { [mode |-> "min", terms |-> Vec(<<1, 5, 5, -6>>),
     cons |-> << UserCon(<<-5, 4, 1, -5>>, "<=", 0),
                 UserCon(<<2, 6, -5, 6>>, ">=", 0),
                 UserCon(<<1, 1, 1, 1>>, "<=", 10) >>] }

InitBoundedRegion ==
  /\ prob \in {p \in Problems : BoundingCons(p) # {}} \cup degenerateProblems
  /\ driver \in {"solve", "solveParallel"}
  /\ ip = IPBuild(prob)
  /\ pc = "built"
  /\ ParInit
  /\ lpIn = <<>>
  /\ lp = NoLP

\* the steps of the thread that calls the driver, and of thread w of the team
mainThread == CallInit \/ SolveLoop \/ SolveReturn \/ ParallelReturn
worker(w) ==
  \/ WTop(w) \/ WEnter1(w) \/ WPop(w) \/ WSolve(w)
  \/ WEnter2(w) \/ WCheckLeft(w) \/ WCheckRight(w)

SpecBoundedRegion == InitBoundedRegion /\ [][Next]_vars

\* a thread that can go on without end does go on
SpecBoundedRegionFair ==
  /\ SpecBoundedRegion
  /\ WF_vars(mainThread)
  /\ \A w \in Workers : WF_vars(worker(w))

\* the calling thread has a step to take: a call that returns, or the return
mainThreadCanStep ==
  \/ pc = "built" /\ nodeReturns(init(ip).objFunc, ip.multiCon, RootRange(prob))
  \/ pc = "loop" /\ ~solveLoopCond(ip)
  \/ /\ pc = "loop" /\ solveLoopCond(ip) /\ ip.nodeSolvedCount < MaxNodes
     /\ nodeReturns(ip.objFunc, ip.multiCon, queueTop(ip.nodeQueue).varRangeLeft)
     /\ nodeReturns(ip.objFunc, ip.multiCon, queueTop(ip.nodeQueue).varRangeRight)
  \/ pc = "parallel" /\ \A w \in Workers : wpc[w] = "exit"

\* thread w of the team has a step to take: it waits only at the entry of a
\* critical region another thread is in
workerCanStep(w) ==
  /\ pc = "parallel"
  /\ CASE wpc[w] \in {"top", "checkLeft", "checkRight"} -> TRUE
       [] wpc[w] \in {"enter1", "enter2"} -> critical = 0
       [] wpc[w] = "pop" -> ip.nodeSolvedCount < MaxNodes
       [] wpc[w] = "solve" ->
            /\ nodeReturns(ip.objFunc, ip.multiCon, nodeOpt[w].varRangeLeft)
            /\ nodeReturns(ip.objFunc, ip.multiCon, nodeOpt[w].varRangeRight)
       [] OTHER -> FALSE

\* C30: on a problem whose region is bounded solve() and solveParallel() go on
\* until they return: init() returns, every turn of the loop of solve() and
\* every thread that holds a node gets its two child LPs solved, and the queue
\* is emptied within the nodes the model allows
C30_DriversTerminate ==
  /\ pc = "built" =>
       nodeReturns(init(ip).objFunc, ip.multiCon, RootRange(prob))
  /\ (pc = "loop" /\ solveLoopCond(ip)) =>
       /\ ip.nodeSolvedCount < MaxNodes
       /\ nodeReturns(ip.objFunc, ip.multiCon, queueTop(ip.nodeQueue).varRangeLeft)
       /\ nodeReturns(ip.objFunc, ip.multiCon, queueTop(ip.nodeQueue).varRangeRight)
  /\ \A w \in Workers :
       /\ (pc = "parallel" /\ wpc[w] = "pop") => ip.nodeSolvedCount < MaxNodes
       /\ (pc = "parallel" /\ wpc[w] = "solve") =>
            /\ nodeReturns(ip.objFunc, ip.multiCon, nodeOpt[w].varRangeLeft)
            /\ nodeReturns(ip.objFunc, ip.multiCon, nodeOpt[w].varRangeRight)

\* weak fairness of every thread, the enabling conditions written out
C30_WeakFairness ==
  /\ []<>(~mainThreadCanStep) \/ []<><<mainThread>>_vars
  /\ \A w \in Workers : []<>(~workerCanStep(w)) \/ []<><<worker(w)>>_vars

\* strong fairness of the threads of the team: a thread that finds the critical
\* region free again and again gets in
C30_StrongFairness ==
  /\ []<>(~mainThreadCanStep) \/ []<><<mainThread>>_vars
  /\ \A w \in Workers : <>[](~workerCanStep(w)) \/ []<><<worker(w)>>_vars

\* C30, first half: under weak fairness solve() returns, the problem in four
\* variables left aside
C30_SequentialTerminates ==
  C30_WeakFairness =>
    <>(pc = "done" \/ driver = "solveParallel" \/ prob \in degenerateProblems)

\* C30, second half as stated: under weak fairness solveParallel() returns
C30_ParallelTerminatesWeak ==
  C30_WeakFairness =>
    <>(pc = "done" \/ driver = "solve" \/ prob \in degenerateProblems)

\* C30, second half under strong fairness of the threads of the team
C30_ParallelTerminatesStrong ==
  C30_StrongFairness =>
    <>(pc = "done" \/ driver = "solve" \/ prob \in degenerateProblems)

====
